---- MODULE Spec2Model ----
(***************************************************************************)
(* A model of the blogicum blog application (src/blogicum/blog): the       *)
(* relational store (users, categories, locations, posts, comments), the   *)
(* clock, and one action per request handler of views.py, together with    *)
(* the administrative operations the on_delete rules of models.py react to.*)
(***************************************************************************)
EXTENDS Integers, Naturals, Sequences, FiniteSets, TLC

\* ------------------------------------------------------------------ bounds
\* A specification explores the posts and comments with the first ids the
\* auto-increment counters hand out: MaxPosts posts where a claim needs two
\* posts side by side, FewPosts where one post shows its case, MaxComments
\* comments. The clock runs over 0..MaxTime in ticks, with TicksPerDay ticks to
\* a calendar day; page numbers 1..MaxPage are requested.
MaxPosts == 2

FewPosts == 1

MaxComments == 1

MaxTime == 2

TicksPerDay == 2

ListedPosts == 3

MaxPage == 2

\* blogicum.settings.POSTS_PER_PAGE, imported by views.py (the settings module
\* sets the value; the model keeps pages small so that a listing overflows one
\* while a page still holds posts whose order can be seen).
POSTS_PER_PAGE == 2

\* ------------------------------------------------------------------ values
None == "None"

Anonymous == "anon"

Users == {"u1", "u2"}

Viewers == Users \cup {Anonymous}

Cats == {"c1", "c2"}

Locs == {"l1"}

Titles == {"A", "B"}

Texts == {"t1", "t2"}

Methods == {"GET", "POST"}

CommentIds == 1..MaxComments

Times == 0..MaxTime

Pages == 1..MaxPage

VARIABLES
    users,          \* username -> profile data of the existing users
    categories,     \* slug -> is_published of the existing categories
    locations,      \* the existing locations
    posts,          \* post id -> Post row
    comments,       \* comment id -> Comment row
    nextPostId,     \* auto-increment counter of Post
    nextCommentId,  \* auto-increment counter of Comment
    now,            \* timezone.now()
    startedAt,      \* timezone.now() when views.py was imported (the process start)
    response        \* the answer to the last request

store == <<users, categories, locations, posts, comments, nextPostId, nextCommentId>>

vars == <<users, categories, locations, posts, comments, nextPostId,
          nextCommentId, now, startedAt, response>>

\* ------------------------------------------------------------------ helpers
Min(a, b) == IF a <= b THEN a ELSE b

Remove(f, ks) == [k \in (DOMAIN f) \ ks |-> f[k]]

\* pub_date__date / DateField.get_prep_value: the calendar date of a timestamp.
Date(t) == t \div TicksPerDay

TitleRank(t) == IF t = "A" THEN 1 ELSE 2

\* redirect targets (reverse / redirect of a named route)
NoTarget == [name |-> "none", post_id |-> 0, username |-> ""]

LoginPage == [name |-> "login", post_id |-> 0, username |-> ""]

PostDetailPage(pid) == [name |-> "post_detail", post_id |-> pid, username |-> ""]

ProfilePage(u) == [name |-> "profile", post_id |-> 0, username |-> u]

Request(op, v, method, pid, cid, key, page) ==
    [op |-> op, viewer |-> v, method |-> method, post_id |-> pid,
     comment_id |-> cid, key |-> key, page |-> page]

NoRequest == Request("none", Anonymous, "GET", 0, 0, "", 0)

Respond(req, status, target, listing) ==
    [req |-> req, status |-> status, target |-> target, listing |-> listing]

Rendered(req, listing) == Respond(req, "ok", NoTarget, listing)

NotFound(req) == Respond(req, "notfound", NoTarget, <<>>)

ServerError(req) == Respond(req, "error", NoTarget, <<>>)

Redirect(req, target) == Respond(req, "redirect", target, <<>>)

NoResponse == Respond(NoRequest, "none", NoTarget, <<>>)

\* request.user.is_authenticated
IsAuthenticated(v) == v # Anonymous

\* a request is made by the anonymous user or by a user who exists
CanRequest(v) == v = Anonymous \/ v \in DOMAIN users

\* ------------------------------------------------------------------ queries
\* get_user: get_object_or_404(User, username=username)
UserExists(username) == username \in DOMAIN users

\* get_published_category: get_object_or_404(Category, slug=..., is_published=True)
PublishedCategoryExists(slug) == slug \in DOMAIN categories /\ categories[slug]

\* The filter of get_posts: the join on category drops a post without category,
\* and pub_date__date__lte compares calendar dates.
GeneralFilter(p, t) ==
    /\ p.category # None
    /\ categories[p.category]
    /\ p.is_published
    /\ Date(p.pub_date) <= Date(t)

\* get_posts(apply_general_filter, ...) with timezone.now() = t when it is called
GetPosts(apply_general_filter, t) ==
    {id \in DOMAIN posts : apply_general_filter => GeneralFilter(posts[id], t)}

\* Post.Meta.ordering ('-created_at', 'title'), the order of a queryset without
\* order_by: rows are created in id order, the newest comes first.
NotAfterCreated(a, b) == a >= b

\* order_by('-pub_date', 'title'): a is not after b
NotAfter(a, b) ==
    \/ posts[a].pub_date > posts[b].pub_date
    \/ /\ posts[a].pub_date = posts[b].pub_date
       /\ TitleRank(posts[a].title) <= TitleRank(posts[b].title)

\* The orders the database may return the rows of qs in: rows that agree on
\* (pub_date, title) come in either order.
OrderBy(qs) ==
    {l \in [1..Cardinality(qs) -> qs] :
        /\ \A i, j \in DOMAIN l : l[i] = l[j] => i = j
        /\ \A i, j \in DOMAIN l : i < j => NotAfter(l[i], l[j])}

\* Paginator.num_pages with allow_empty_first_page
NumPages(n) == IF n = 0 THEN 1 ELSE (n + POSTS_PER_PAGE - 1) \div POSTS_PER_PAGE

\* Paginator.page(number).object_list
PageOf(l, page) ==
    SubSeq(l, (page - 1) * POSTS_PER_PAGE + 1, Min(page * POSTS_PER_PAGE, Len(l)))

\* MultipleObjectMixin.paginate_queryset: Http404 on a page past the last
ValidPage(l, page) == page <= NumPages(Len(l))

\* The general filter applied to every profile, the owner's included.
ProfileFilterAlways(v, username) == TRUE

\* ProfileDetailView.get_queryset, before ordering
ProfileFilterApplied(v, username) == ~(IsAuthenticated(v) /\ v = username)

ProfileQueryset(v, username) ==
    {id \in GetPosts(ProfileFilterApplied(v, username), now) :
        posts[id].author = username}

\* CategoryListView.get_queryset, before ordering
CategoryQueryset(slug) ==
    {id \in GetPosts(TRUE, now) : posts[id].category = slug}

\* PostsListView.queryset: built once, when the module is imported
HomeQueryset == GetPosts(TRUE, startedAt)

\* The test of PostDetailView.get_object, in evaluation order; reading
\* post.category.is_published of a post without category raises.
DetailOutcome(v, p) ==
    IF v = p.author THEN "ok"
    ELSE IF ~p.is_published THEN "notfound"
    ELSE IF p.category = None THEN "error"
    ELSE IF ~categories[p.category] THEN "notfound"
    ELSE IF p.pub_date >= now THEN "notfound"
    ELSE "ok"

\* ------------------------------------------------------------------ read handlers
ReadOnly(resp) ==
    /\ response' = resp
    /\ UNCHANGED <<store, now, startedAt>>

\* GET /
PostsListView(v, page) ==
    LET req == Request("index", v, "GET", 0, 0, "", page) IN
    /\ CanRequest(v)
    /\ \E l \in OrderBy(HomeQueryset) :
          ReadOnly(IF ValidPage(l, page) THEN Rendered(req, PageOf(l, page))
                   ELSE NotFound(req))

\* GET /category/<slug>/
CategoryListView(v, slug, page) ==
    LET req == Request("category_posts", v, "GET", 0, 0, slug, page) IN
    /\ CanRequest(v)
    /\ IF ~PublishedCategoryExists(slug) THEN ReadOnly(NotFound(req))
       ELSE \E l \in OrderBy(CategoryQueryset(slug)) :
               ReadOnly(IF ValidPage(l, page) THEN Rendered(req, PageOf(l, page))
                        ELSE NotFound(req))

\* GET /profile/<username>/ : get_context_data replaces the paginated context
\* by one whose page_obj is the whole queryset.
ProfileDetailView(v, username, page) ==
    LET req == Request("profile", v, "GET", 0, 0, username, page) IN
    /\ CanRequest(v)
    /\ IF ~UserExists(username) THEN ReadOnly(NotFound(req))
       ELSE \E l \in OrderBy(ProfileQueryset(v, username)) :
               ReadOnly(IF ValidPage(l, page) THEN Rendered(req, l)
                        ELSE NotFound(req))

\* GET /posts/<post_id>/
PostDetailView(v, pid) ==
    LET req == Request("post_detail", v, "GET", pid, 0, "", 0) IN
    /\ CanRequest(v)
    /\ IF pid \notin DOMAIN posts THEN ReadOnly(NotFound(req))
       ELSE LET outcome == DetailOutcome(v, posts[pid]) IN
            ReadOnly(IF outcome = "ok" THEN Rendered(req, <<pid>>)
                     ELSE IF outcome = "error" THEN ServerError(req)
                     ELSE NotFound(req))

\* ------------------------------------------------------------------ forms
\* PostForm (every field but author): category is a required choice among the
\* existing categories, location an optional choice among the existing locations.
PostFormValid(form) ==
    /\ form.category \in DOMAIN categories
    /\ form.location = None \/ form.location \in locations

\* CommentForm: the text is required.
CommentFormValid(form) == form.text # ""

\* The request makes PostCreateView (CommentCreateView) insert a row.
CreatesPost(v, method, form) ==
    IsAuthenticated(v) /\ method = "POST" /\ PostFormValid(form)

CreatesComment(v, method, pid, form) ==
    IsAuthenticated(v) /\ method = "POST" /\ CommentFormValid(form) /\ pid \in DOMAIN posts

\* ModelForm.save on a Post
SavePost(p, form) ==
    [p EXCEPT !.title = form.title, !.pub_date = form.pub_date,
              !.location = form.location, !.category = form.category,
              !.is_published = form.is_published]

NewPost(author, form) ==
    [title |-> form.title, pub_date |-> form.pub_date, author |-> author,
     location |-> form.location, category |-> form.category,
     is_published |-> form.is_published]

NewComment(pid, author, form) ==
    [post |-> pid, author |-> author, text |-> form.text]

\* ------------------------------------------------------------------ on_delete
\* Comment.post without the cascade: the comments of a deleted post stay.
CommentsOfPostsKept(pids) == {}

\* Comment.post: on_delete=CASCADE
CommentsOfPosts(pids) == {c \in DOMAIN comments : comments[c].post \in pids}

\* Post.author, Comment.author: on_delete=CASCADE
PostsOfUser(u) == {id \in DOMAIN posts : posts[id].author = u}

CommentsOfUser(u) == {c \in DOMAIN comments : comments[c].author = u}

\* Post.category with on_delete=DO_NOTHING: the reference is left as it was.
KeepCategory(p, slug) == p

\* Post.category, Post.location: on_delete=SET_NULL
ClearCategory(p, slug) == IF p.category = slug THEN [p EXCEPT !.category = None] ELSE p

ClearLocation(p, l) == IF p.location = l THEN [p EXCEPT !.location = None] ELSE p

\* ------------------------------------------------------------------ guards
\* A test_func that lets every user through.
TestFuncAnyone(object, v) == TRUE

\* OnlyAuthorMixin.test_func
TestFunc(object, v) == object.author = v

\* A lookup by pk alone, whatever post the URL names.
CommentFoundByPk(pid, cid) == cid \in DOMAIN comments

\* CommentMixin.get_object: get_object_or_404(Comment, pk=comment_id, post_id=post_id)
CommentFound(pid, cid) == cid \in DOMAIN comments /\ comments[cid].post = pid

Answer(resp) ==
    /\ response' = resp
    /\ UNCHANGED <<now, startedAt>>

Untouched(resp) ==
    /\ Answer(resp)
    /\ UNCHANGED store

\* ------------------------------------------------------------------ post handlers
\* /posts/create/
PostCreateView(v, method, form) ==
    LET req == Request("create_post", v, method, 0, 0, "", 0) IN
    /\ CanRequest(v)
    /\ IF ~IsAuthenticated(v) THEN Untouched(Redirect(req, LoginPage))
       ELSE IF method = "POST" /\ PostFormValid(form) THEN
            /\ posts' = posts @@ (nextPostId :> NewPost(v, form))
            /\ nextPostId' = nextPostId + 1
            /\ Answer(Redirect(req, ProfilePage(v)))
            /\ UNCHANGED <<users, categories, locations, comments, nextCommentId>>
       ELSE Untouched(Rendered(req, <<>>))

\* /posts/<post_id>/edit/
PostUpdateView(v, method, pid, form) ==
    LET req == Request("edit_post", v, method, pid, 0, "", 0) IN
    /\ CanRequest(v)
    /\ IF pid \notin DOMAIN posts THEN Untouched(NotFound(req))
       ELSE IF ~TestFunc(posts[pid], v) THEN
            Untouched(Redirect(req, PostDetailPage(pid)))
       ELSE IF method = "POST" /\ PostFormValid(form) THEN
            /\ posts' = [posts EXCEPT ![pid] = SavePost(@, form)]
            /\ Answer(Redirect(req, PostDetailPage(pid)))
            /\ UNCHANGED <<users, categories, locations, comments, nextPostId,
                           nextCommentId>>
       ELSE Untouched(Rendered(req, <<>>))

\* /posts/<post_id>/delete/
PostDeleteView(v, method, pid) ==
    LET req == Request("delete_post", v, method, pid, 0, "", 0) IN
    /\ CanRequest(v)
    /\ IF pid \notin DOMAIN posts THEN Untouched(NotFound(req))
       ELSE IF ~TestFunc(posts[pid], v) THEN
            Untouched(Redirect(req, PostDetailPage(pid)))
       ELSE IF method = "POST" THEN
            /\ posts' = Remove(posts, {pid})
            /\ comments' = Remove(comments, CommentsOfPosts({pid}))
            /\ Answer(Redirect(req, ProfilePage(v)))
            /\ UNCHANGED <<users, categories, locations, nextPostId, nextCommentId>>
       ELSE Untouched(Rendered(req, <<>>))

\* ------------------------------------------------------------------ comment handlers
\* /posts/<post_id>/comment/ : the post is looked up in form_valid only
CommentCreateView(v, method, pid, form) ==
    LET req == Request("add_comment", v, method, pid, 0, "", 0) IN
    /\ CanRequest(v)
    /\ IF ~IsAuthenticated(v) THEN Untouched(Redirect(req, LoginPage))
       ELSE IF method = "POST" /\ CommentFormValid(form) THEN
            IF pid \notin DOMAIN posts THEN Untouched(NotFound(req))
            ELSE /\ comments' = comments @@ (nextCommentId :> NewComment(pid, v, form))
                 /\ nextCommentId' = nextCommentId + 1
                 /\ Answer(Redirect(req, PostDetailPage(pid)))
                 /\ UNCHANGED <<users, categories, locations, posts, nextPostId>>
       ELSE Untouched(Rendered(req, <<>>))

\* /posts/<post_id>/edit_comment/<comment_id>/
CommentUpdateView(v, method, pid, cid, form) ==
    LET req == Request("edit_comment", v, method, pid, cid, "", 0) IN
    /\ CanRequest(v)
    /\ IF ~CommentFound(pid, cid) THEN Untouched(NotFound(req))
       ELSE IF ~TestFunc(comments[cid], v) THEN
            Untouched(Redirect(req, PostDetailPage(pid)))
       ELSE IF method = "POST" /\ CommentFormValid(form) THEN
            /\ comments' = [comments EXCEPT ![cid].text = form.text]
            /\ Answer(Redirect(req, PostDetailPage(pid)))
            /\ UNCHANGED <<users, categories, locations, posts, nextPostId,
                           nextCommentId>>
       ELSE Untouched(Rendered(req, <<>>))

\* /posts/<post_id>/delete_comment/<comment_id>/
CommentDeleteView(v, method, pid, cid) ==
    LET req == Request("delete_comment", v, method, pid, cid, "", 0) IN
    /\ CanRequest(v)
    /\ IF ~CommentFound(pid, cid) THEN Untouched(NotFound(req))
       ELSE IF ~TestFunc(comments[cid], v) THEN
            Untouched(Redirect(req, PostDetailPage(pid)))
       ELSE IF method = "POST" THEN
            /\ comments' = Remove(comments, {cid})
            /\ Answer(Redirect(req, PostDetailPage(pid)))
            /\ UNCHANGED <<users, categories, locations, posts, nextPostId,
                           nextCommentId>>
       ELSE Untouched(Rendered(req, <<>>))

\* UserUpdateForm.is_valid for the instance v: username is required and unique
\* among the other users; last_name, first_name and email may be blank.
UserFormValid(v, form) ==
    /\ form.username # ""
    /\ form.username = v \/ form.username \notin DOMAIN users

\* A reference to user u once the row of v carries the username name: rows
\* refer to the user row, which keeps its key when it is renamed.
Renamed(u, v, name) == IF u = v THEN name ELSE u

\* /personal_info/ : the form saves request.user, username included, and
\* get_success_url reads the saved username.
ProfileUpdateView(v, method, form) ==
    LET req == Request("edit_profile", v, method, 0, 0, "", 0) IN
    /\ CanRequest(v)
    /\ IF ~IsAuthenticated(v) THEN Untouched(Redirect(req, LoginPage))
       ELSE IF method = "POST" /\ UserFormValid(v, form) THEN
            /\ users' = [u \in ((DOMAIN users) \ {v}) \cup {form.username} |->
                             IF u = form.username THEN form.first_name ELSE users[u]]
            /\ posts' = [id \in DOMAIN posts |->
                             [posts[id] EXCEPT !.author = Renamed(@, v, form.username)]]
            /\ comments' = [c \in DOMAIN comments |->
                             [comments[c] EXCEPT !.author = Renamed(@, v, form.username)]]
            /\ Answer(Redirect(req, ProfilePage(form.username)))
            /\ UNCHANGED <<categories, locations, nextPostId, nextCommentId>>
       ELSE Untouched(Rendered(req, <<>>))

\* ------------------------------------------------------------------ administration
Admin == response' = NoResponse /\ UNCHANGED <<now, startedAt>>

CreateUser(u, data) ==
    /\ u \notin DOMAIN users
    /\ users' = users @@ (u :> data)
    /\ Admin
    /\ UNCHANGED <<categories, locations, posts, comments, nextPostId, nextCommentId>>

DeleteUser(u) ==
    /\ u \in DOMAIN users
    /\ users' = Remove(users, {u})
    /\ posts' = Remove(posts, PostsOfUser(u))
    /\ comments' = Remove(comments, CommentsOfUser(u) \cup CommentsOfPosts(PostsOfUser(u)))
    /\ Admin
    /\ UNCHANGED <<categories, locations, nextPostId, nextCommentId>>

CreateCategory(slug, published) ==
    /\ slug \notin DOMAIN categories
    /\ categories' = categories @@ (slug :> published)
    /\ Admin
    /\ UNCHANGED <<users, locations, posts, comments, nextPostId, nextCommentId>>

\* CategoryAdmin.list_editable: is_published
SetCategoryPublished(slug, published) ==
    /\ slug \in DOMAIN categories
    /\ categories[slug] # published
    /\ categories' = [categories EXCEPT ![slug] = published]
    /\ Admin
    /\ UNCHANGED <<users, locations, posts, comments, nextPostId, nextCommentId>>

DeleteCategory(slug) ==
    /\ slug \in DOMAIN categories
    /\ categories' = Remove(categories, {slug})
    /\ posts' = [id \in DOMAIN posts |-> ClearCategory(posts[id], slug)]
    /\ Admin
    /\ UNCHANGED <<users, locations, comments, nextPostId, nextCommentId>>

CreateLocation(l) ==
    /\ l \notin locations
    /\ locations' = locations \cup {l}
    /\ Admin
    /\ UNCHANGED <<users, categories, posts, comments, nextPostId, nextCommentId>>

DeleteLocation(l) ==
    /\ l \in locations
    /\ locations' = locations \ {l}
    /\ posts' = [id \in DOMAIN posts |-> ClearLocation(posts[id], l)]
    /\ Admin
    /\ UNCHANGED <<users, categories, comments, nextPostId, nextCommentId>>

\* PostAdmin.list_editable: author, location, category, is_published
AdminEditPost(pid, author, l, slug, published) ==
    /\ pid \in DOMAIN posts
    /\ author \in DOMAIN users
    /\ slug \in DOMAIN categories
    /\ l = None \/ l \in locations
    /\ posts' = [posts EXCEPT ![pid].author = author, ![pid].location = l,
                              ![pid].category = slug, ![pid].is_published = published]
    /\ posts' # posts
    /\ Admin
    /\ UNCHANGED <<users, categories, locations, comments, nextPostId, nextCommentId>>

\* ------------------------------------------------------------------ clock
Tick ==
    /\ now < MaxTime
    /\ now' = now + 1
    /\ response' = NoResponse
    /\ UNCHANGED <<store, startedAt>>

\* ------------------------------------------------------------------ specifications
\* A freshly migrated site: two registered users, two published categories and
\* a location entered through the admin, no post and no comment yet.
Init ==
    /\ users = [u \in Users |-> "n1"]
    /\ categories = [c \in Cats |-> TRUE]
    /\ locations = Locs
    /\ posts = <<>>
    /\ comments = <<>>
    /\ nextPostId = 1
    /\ nextCommentId = 1
    /\ now = 0
    /\ startedAt = 0
    /\ response = NoResponse

\* The handlers themselves never refuse a row; a specification stops inserting
\* once the counter has passed cap.
PostCreate(cap, v, method, form) ==
    /\ CreatesPost(v, method, form) => nextPostId <= cap
    /\ PostCreateView(v, method, form)

CommentCreate(cap, v, method, pid, form) ==
    /\ CreatesComment(v, method, pid, form) => nextCommentId <= cap
    /\ CommentCreateView(v, method, pid, form)

\* PostForm data of every publication state, in an existing category
VisibilityForms ==
    [title : {"A"}, pub_date : Times, location : {None}, category : Cats,
     is_published : BOOLEAN]

\* PostForm data of every publication state, in the first category
OwnerForms ==
    [title : {"A"}, pub_date : Times, location : {None}, category : {"c1"},
     is_published : BOOLEAN]

\* PostForm data: two valid forms that differ in every field, and one without
\* the required category
PostForms ==
    {[title |-> "A", pub_date |-> 0, location |-> None, category |-> "c1",
      is_published |-> TRUE],
     [title |-> "B", pub_date |-> 1, location |-> "l1", category |-> "c2",
      is_published |-> FALSE],
     [title |-> "A", pub_date |-> 0, location |-> None, category |-> None,
      is_published |-> TRUE]}

\* PostForm data that differ in category and location
StoreForms ==
    [title : {"A"}, pub_date : {0}, location : Locs \cup {None}, category : Cats,
     is_published : {TRUE}]

\* CommentForm data: a text, or the text missing
CommentForms(texts) == [text : texts \cup {""}]

\* What a request carries: a GET carries no form data, a POST one of forms.
Submissions(forms, blank) ==
    {[method |-> "GET", form |-> blank]} \cup {[method |-> "POST", form |-> f] : f \in forms}

BlankPost == CHOOSE form \in PostForms : form.category = None

BlankComment == [text |-> ""]

\* ---- Public visibility: posts of every publication state are written,
\* categories are unpublished and deleted, time passes, and the four read
\* handlers are asked.
WritePost ==
    \E v \in Users, form \in VisibilityForms : PostCreate(MaxPosts, v, "POST", form)

UnpublishCategory == \E slug \in Cats : SetCategoryPublished(slug, FALSE)

RemoveCategory == \E slug \in Cats : DeleteCategory(slug)

\* The two public lists never read request.user: they are asked anonymously.
GetIndex == \E page \in Pages : PostsListView(Anonymous, page)

GetCategory == \E slug \in Cats, page \in Pages : CategoryListView(Anonymous, slug, page)

GetProfile == \E v \in Viewers, u \in Users, page \in Pages : ProfileDetailView(v, u, page)

GetPost == \E v \in Viewers, pid \in 1..MaxPosts : PostDetailView(v, pid)

VisibilityNext ==
    \/ Tick
    \/ WritePost
    \/ UnpublishCategory
    \/ RemoveCategory
    \/ GetIndex
    \/ GetCategory
    \/ GetProfile
    \/ GetPost

SpecVisibility == Init /\ [][VisibilityNext]_vars

\* ---- The author's view: posts of every publication state are written in a
\* category that is then unpublished or deleted, time passes, and profiles and
\* post details are asked by the author and by the other user.
WriteOwnPost ==
    \E v \in Users, form \in OwnerForms : PostCreate(FewPosts, v, "POST", form)

UnpublishOwnCategory == SetCategoryPublished("c1", FALSE)

RemoveOwnCategory == DeleteCategory("c1")

GetAuthorProfile ==
    \E v \in Users, u \in Users, page \in Pages : ProfileDetailView(v, u, page)

GetAuthorPost == \E v \in Users, pid \in 1..FewPosts : PostDetailView(v, pid)

OwnerNext ==
    \/ Tick
    \/ WriteOwnPost
    \/ UnpublishOwnCategory
    \/ RemoveOwnCategory
    \/ GetAuthorProfile
    \/ GetAuthorPost

SpecOwner == Init /\ [][OwnerNext]_vars

\* ---- Listings: one author writes published posts of every title and of every
\* time of the first day in one published category, and the three lists are
\* asked page by page.
ListingForms ==
    [title : Titles, pub_date : 0..(TicksPerDay - 1), location : {None},
     category : {"c1"}, is_published : {TRUE}]

WriteListedPost == \E form \in ListingForms : PostCreate(ListedPosts, "u1", "POST", form)

ListIndex == \E page \in Pages : PostsListView(Anonymous, page)

ListCategory == \E page \in Pages : CategoryListView(Anonymous, "c1", page)

ListProfile == \E v \in {Anonymous, "u1"}, page \in Pages : ProfileDetailView(v, "u1", page)

ListingNext ==
    \/ WriteListedPost
    \/ ListIndex
    \/ ListCategory
    \/ ListProfile

SpecListing == Init /\ [][ListingNext]_vars

\* ---- Post ownership and login: posts are written, edited and deleted by
\* their authors, by other users and by anonymous visitors, with GET and POST,
\* with valid and invalid form data; users comment, and anonymous visitors try
\* every protected route.
CreatePost ==
    \E v \in Viewers, sent \in Submissions(PostForms, BlankPost) :
        PostCreate(FewPosts, v, sent.method, sent.form)

\* The visitors of the post routes: the users under their names, the first one
\* also under the name a profile edit gives it, and the anonymous visitor.
Visitors == Viewers \cup {"u3"}

EditPost ==
    \E v \in Visitors, pid \in 1..FewPosts, sent \in Submissions(PostForms, BlankPost) :
        PostUpdateView(v, sent.method, pid, sent.form)

DeletePost ==
    \E v \in Visitors, method \in Methods, pid \in 1..FewPosts :
        PostDeleteView(v, method, pid)

AddComment ==
    \E v \in Viewers, pid \in 1..FewPosts :
        CommentCreate(MaxComments, v, "POST", pid, [text |-> "t1"])

AnonymousEditComment ==
    \E pid \in 1..FewPosts, cid \in CommentIds :
        CommentUpdateView(Anonymous, "POST", pid, cid, [text |-> "t2"])

AnonymousDeleteComment ==
    \E pid \in 1..FewPosts, cid \in CommentIds :
        CommentDeleteView(Anonymous, "POST", pid, cid)

\* UserUpdateForm data: the own name, a free one, a taken one or none, with
\* and without a first name
UserForms == [username : {"u1", "u2", "u3", ""}, first_name : {"", "n2"}]

BlankUser == [username |-> "", first_name |-> ""]

EditProfile ==
    \E v \in {Anonymous, "u1", "u3"}, sent \in Submissions(UserForms, BlankUser) :
        ProfileUpdateView(v, sent.method, sent.form)

Next ==
    \/ CreatePost
    \/ EditPost
    \/ DeletePost
    \/ AddComment
    \/ AnonymousEditComment
    \/ AnonymousDeleteComment
    \/ EditProfile

Spec == Init /\ [][Next]_vars

\* ---- Comment ownership: a user writes posts and deletes them; comments
\* are written, edited and deleted by their authors, by other users and by
\* anonymous visitors, under the right and under the wrong post id, with GET
\* and POST, with valid and invalid form data.
WriteCommentedPost ==
    PostCreate(MaxPosts, "u1", "POST", CHOOSE form \in PostForms : form.title = "B")

DeleteOwnPost ==
    \E pid \in 1..MaxPosts :
        pid \in DOMAIN posts /\ PostDeleteView(posts[pid].author, "POST", pid)

CreateComment ==
    \E v \in Viewers, pid \in 1..MaxPosts,
       sent \in Submissions(CommentForms({"t1"}), BlankComment) :
        CommentCreate(MaxComments, v, sent.method, pid, sent.form)

EditComment ==
    \E v \in Viewers, pid \in 1..MaxPosts, cid \in CommentIds,
       sent \in Submissions(CommentForms({"t2"}), BlankComment) :
        CommentUpdateView(v, sent.method, pid, cid, sent.form)

DeleteComment ==
    \E v \in Viewers, method \in Methods, pid \in 1..MaxPosts, cid \in CommentIds :
        CommentDeleteView(v, method, pid, cid)

CommentsNext ==
    \/ WriteCommentedPost
    \/ DeleteOwnPost
    \/ CreateComment
    \/ EditComment
    \/ DeleteComment

SpecComments == Init /\ [][CommentsNext]_vars

\* ---- Referential integrity: the admin creates and deletes users, categories
\* and locations and reassigns posts; users write, edit and delete their posts
\* and comments.
AddUser == \E u \in Users : CreateUser(u, "n1")

RemoveUser == \E u \in Users : DeleteUser(u)

AddCategory == \E slug \in Cats : CreateCategory(slug, TRUE)

DropCategory == \E slug \in Cats : DeleteCategory(slug)

AddLocation == \E l \in Locs : CreateLocation(l)

DropLocation == \E l \in Locs : DeleteLocation(l)

ReassignPost ==
    \E pid \in 1..FewPosts, author \in Users :
        /\ pid \in DOMAIN posts
        /\ AdminEditPost(pid, author, posts[pid].location, posts[pid].category,
                         posts[pid].is_published)

StorePost ==
    \E v \in Users, form \in StoreForms : PostCreate(FewPosts, v, "POST", form)

RewritePost ==
    \E pid \in 1..FewPosts, form \in StoreForms :
        pid \in DOMAIN posts /\ PostUpdateView(posts[pid].author, "POST", pid, form)

RemovePost ==
    \E pid \in 1..FewPosts :
        pid \in DOMAIN posts /\ PostDeleteView(posts[pid].author, "POST", pid)

StoreComment ==
    \E v \in Users, pid \in 1..FewPosts :
        CommentCreate(MaxComments, v, "POST", pid, [text |-> "t1"])

RewriteComment ==
    \E cid \in CommentIds :
        /\ cid \in DOMAIN comments
        /\ CommentUpdateView(comments[cid].author, "POST", comments[cid].post, cid,
                             [text |-> "t2"])

RemoveComment ==
    \E cid \in CommentIds :
        /\ cid \in DOMAIN comments
        /\ CommentDeleteView(comments[cid].author, "POST", comments[cid].post, cid)

StoreNext ==
    \/ AddUser
    \/ RemoveUser
    \/ AddCategory
    \/ DropCategory
    \/ AddLocation
    \/ DropLocation
    \/ ReassignPost
    \/ StorePost
    \/ RewritePost
    \/ RemovePost
    \/ StoreComment
    \/ RewriteComment
    \/ RemoveComment

SpecStore == Init /\ [][StoreNext]_vars

\* ---- Nullifying references: users write and comment posts in the categories
\* and locations that the admin creates and deletes.
FilePost ==
    \E v \in Users, form \in StoreForms : PostCreate(MaxPosts, v, "POST", form)

CommentFiledPost ==
    \E pid \in 1..MaxPosts : CommentCreate(MaxComments, "u2", "POST", pid, [text |-> "t1"])

NullifyNext ==
    \/ AddCategory
    \/ DropCategory
    \/ AddLocation
    \/ DropLocation
    \/ FilePost
    \/ CommentFiledPost

SpecNullify == Init /\ [][NullifyNext]_vars

\* ------------------------------------------------------------------ claims on visibility
Range(l) == {l[i] : i \in DOMAIN l}

\* The visibility predicate as the specification states it.
PubliclyVisible(p, t) ==
    /\ p.is_published
    /\ p.category # None
    /\ categories[p.category]
    /\ p.pub_date <= t

IsPublicListing(r) ==
    \/ r.req.op = "index"
    \/ r.req.op = "category_posts"
    \/ r.req.op = "profile" /\ r.req.viewer # r.req.key

\* The posts the specification puts in the public listing that r answers.
ExpectedListing(r) ==
    {id \in DOMAIN posts :
        /\ PubliclyVisible(posts[id], now)
        /\ r.req.op = "category_posts" => posts[id].category = r.req.key
        /\ r.req.op = "profile" => posts[id].author = r.req.key}

\* C1: at every request time now, a rendered public listing (home, category,
\* another user's profile) shows the posts that are published, in a published
\* category and with pub_date <= now as full timestamps, and only those: it is
\* the requested page of these posts, or all of them, in listing order.
C1_PublicListingIsVisiblePosts ==
    (IsPublicListing(response) /\ response.status = "ok") =>
        \E l \in OrderBy(ExpectedListing(response)) :
            \/ response.listing = l
            \/ /\ ValidPage(l, response.req.page)
               /\ response.listing = PageOf(l, response.req.page)

\* C2: the detail of an existing post asked by anyone but its author is
\* NotFound when the post fails the visibility predicate and the rendered post
\* otherwise; nothing else (no server error) is answered.
C2_DetailForOthers ==
    (/\ response.req.op = "post_detail"
     /\ response.req.post_id \in DOMAIN posts
     /\ response.req.viewer # posts[response.req.post_id].author) =>
        IF PubliclyVisible(posts[response.req.post_id], now)
        THEN response.status = "ok" /\ response.listing = <<response.req.post_id>>
        ELSE response.status = "notfound"

\* C5: the author sees every post of theirs, whatever its publication state:
\* the own profile (page 1 is always there) renders with all of them, and the
\* detail of an own post is rendered, never NotFound.
C5_AuthorSeesOwnPosts ==
    /\ (response.req.op = "profile" /\ response.req.viewer = response.req.key) =>
          /\ response.req.page = 1 => response.status = "ok"
          /\ response.status = "ok" =>
                \A id \in DOMAIN posts :
                    posts[id].author = response.req.viewer => id \in Range(response.listing)
    /\ (/\ response.req.op = "post_detail"
        /\ response.req.post_id \in DOMAIN posts
        /\ response.req.viewer = posts[response.req.post_id].author) =>
          response.status = "ok" /\ response.listing = <<response.req.post_id>>

\* C5 witness: an author's own profile lists a published post of theirs that
\* lost its category, next to a post that is unpublished or dated in the future.
C5_Witness ==
    /\ response.req.op = "profile"
    /\ response.req.viewer = response.req.key
    /\ response.status = "ok"
    /\ \E a, b \in Range(response.listing) :
          /\ posts[a].category = None
          /\ posts[a].is_published
          /\ ~posts[b].is_published \/ posts[b].pub_date > now

\* C9: a rendered list (home, category, profile) holds at most POSTS_PER_PAGE
\* posts.
C9_ListsArePaginated ==
    (response.req.op \in {"index", "category_posts", "profile"} /\ response.status = "ok") =>
        Len(response.listing) <= POSTS_PER_PAGE

\* C11: every rendered list (home, category, profile) holds its posts by
\* pub_date descending and, among posts of equal pub_date, by title ascending:
\* of two listed posts the earlier one has the greater pub_date, or the same
\* pub_date and a title that is not greater. The order of creation plays no part.
C11_ListsAreOrdered ==
    (response.req.op \in {"index", "category_posts", "profile"} /\ response.status = "ok") =>
        \A i, j \in DOMAIN response.listing :
            i < j =>
                LET X == posts[response.listing[i]]
                    Y == posts[response.listing[j]]
                IN  \/ X.pub_date > Y.pub_date
                    \/ X.pub_date = Y.pub_date /\ TitleRank(X.title) <= TitleRank(Y.title)

\* A page of the home or category list with two posts of equal pub_date, the
\* one titled "A" before the one titled "B" although it was created first, and
\* an older post in the store that was created last.
C11_Witness ==
    /\ response.req.op \in {"index", "category_posts"}
    /\ response.status = "ok"
    /\ Len(response.listing) = 2
    /\ LET x == response.listing[1]
           y == response.listing[2]
       IN  /\ posts[x].pub_date = posts[y].pub_date
           /\ posts[x].title = "A"
           /\ posts[y].title = "B"
           /\ x < y
           /\ \E z \in DOMAIN posts : z > y /\ posts[z].pub_date < posts[x].pub_date

\* ------------------------------------------------------------------ claims on ownership
ProtectedRoutes ==
    {"create_post", "edit_post", "delete_post", "add_comment", "edit_comment",
     "delete_comment", "edit_profile"}

\* C3: an edit or delete of post P asked (with any method and form data) by an
\* authenticated user who is not P's author is answered by a redirect to P's
\* detail page and changes nothing in the store; a step of these two handlers
\* that changes the store was asked by the author of the post it names.
C3_OnlyAuthorChangesPost ==
    [][response'.req.op \in {"edit_post", "delete_post"} =>
        LET pid == response'.req.post_id
            actor == response'.req.viewer
        IN  /\ (pid \in DOMAIN posts /\ IsAuthenticated(actor) /\ actor # posts[pid].author) =>
                  /\ response'.status = "redirect"
                  /\ response'.target = PostDetailPage(pid)
                  /\ store' = store
            /\ store' # store => (pid \in DOMAIN posts /\ actor = posts[pid].author)]_vars

\* C3 witness: a user other than the author POSTed a delete of a commented
\* post and was redirected to the post, which is still there with its comment.
C3_Witness ==
    /\ response.req.op = "delete_post"
    /\ response.req.method = "POST"
    /\ response.status = "redirect"
    /\ response.req.post_id \in DOMAIN posts
    /\ IsAuthenticated(response.req.viewer)
    /\ response.req.viewer # posts[response.req.post_id].author
    /\ \E c \in DOMAIN comments : comments[c].post = response.req.post_id

\* The request names objects that exist: the post of an edit or delete, the
\* comment (under its post) of a comment edit or delete.
AddressesExisting(r) ==
    /\ r.req.op \in {"edit_post", "delete_post"} => r.req.post_id \in DOMAIN posts
    /\ r.req.op \in {"edit_comment", "delete_comment"} =>
          /\ r.req.comment_id \in DOMAIN comments
          /\ comments[r.req.comment_id].post = r.req.post_id

\* C4: every request of an anonymous visitor on a protected route is answered
\* by a redirect to the login page, and the store is unchanged (stated here for
\* the requests that name an existing post or comment).
C4_AnonymousIsSentToLogin ==
    [][(/\ response'.req.op \in ProtectedRoutes
        /\ response'.req.viewer = Anonymous
        /\ AddressesExisting(response')) =>
          /\ response'.status = "redirect"
          /\ response'.target = LoginPage
          /\ store' = store]_vars

\* C6: update and delete of the comment addressed by (post id, comment id)
\* change the store only when the comment exists, belongs to that post and
\* the actor is its author; a comment that is missing or belongs to another
\* post gives NotFound, an actor who is not the author is redirected to the
\* detail page of the given post, and in both cases the comments stay as they are.
C6_OnlyAuthorChangesComment ==
    [][response'.req.op \in {"edit_comment", "delete_comment"} =>
        LET pid == response'.req.post_id
            cid == response'.req.comment_id
            actor == response'.req.viewer
            found == cid \in DOMAIN comments /\ comments[cid].post = pid
        IN  /\ store' # store => (found /\ actor = comments[cid].author)
            /\ ~found => (response'.status = "notfound" /\ comments' = comments)
            /\ (found /\ actor # comments[cid].author) =>
                  /\ response'.status = "redirect"
                  /\ response'.target = PostDetailPage(pid)
                  /\ comments' = comments]_vars

\* C6 witness: the author of a comment POSTed its deletion under the id of
\* another existing post and got NotFound; the comment is still there.
C6_Witness ==
    /\ response.req.op = "delete_comment"
    /\ response.req.method = "POST"
    /\ response.status = "notfound"
    /\ response.req.post_id \in DOMAIN posts
    /\ response.req.comment_id \in DOMAIN comments
    /\ comments[response.req.comment_id].post # response.req.post_id
    /\ comments[response.req.comment_id].author = response.req.viewer

\* C7: a create-comment request of an authenticated user on an existing post
\* either changes nothing or adds exactly one comment, by that user on that
\* post, and then redirects to the post's detail page; on a post id that does
\* not exist every such request (GET or POST, valid or invalid) gives NotFound
\* and creates no comment.
C7_CreateComment ==
    [][(response'.req.op = "add_comment" /\ IsAuthenticated(response'.req.viewer)) =>
        LET pid == response'.req.post_id
            actor == response'.req.viewer
        IN  IF pid \in DOMAIN posts
            THEN \/ store' = store /\ response'.status = "ok"
                 \/ /\ response'.status = "redirect"
                    /\ response'.target = PostDetailPage(pid)
                    /\ \E cid \in DOMAIN comments' \ DOMAIN comments :
                          /\ DOMAIN comments' = DOMAIN comments \cup {cid}
                          /\ comments'[cid].author = actor
                          /\ comments'[cid].post = pid
                    /\ \A c \in DOMAIN comments : comments'[c] = comments[c]
                    /\ <<users, categories, locations, posts, nextPostId>>' =
                       <<users, categories, locations, posts, nextPostId>>
            ELSE response'.status = "notfound" /\ store' = store]_vars

\* ------------------------------------------------------------------ claims on the store
NoOrphans ==
    /\ \A c \in DOMAIN comments :
          comments[c].post \in DOMAIN posts /\ comments[c].author \in DOMAIN users
    /\ \A id \in DOMAIN posts : posts[id].author \in DOMAIN users

\* C8: in every reachable state each comment references an existing post and
\* an existing author, and each post an existing author; a step that deletes a
\* post removes exactly that post and the comments on it, and a step that
\* deletes a user removes exactly that user's posts, the comments on them and
\* that user's comments.
C8_NoOrphans ==
    /\ []NoOrphans
    /\ [][/\ (response'.req.op = "delete_post" /\ store' # store) =>
               LET pid == response'.req.post_id IN
               /\ posts' = Remove(posts, {pid})
               /\ comments' = Remove(comments, {c \in DOMAIN comments : comments[c].post = pid})
               /\ users' = users
          /\ \A u \in DOMAIN users \ DOMAIN users' :
               /\ posts' = Remove(posts, {id \in DOMAIN posts : posts[id].author = u})
               /\ comments' = Remove(comments,
                     {c \in DOMAIN comments :
                         \/ comments[c].author = u
                         \/ comments[c].post \in
                               {id \in DOMAIN posts : posts[id].author = u}})]_vars

\* C8 witness: a post was deleted by its author, and with it went the first
\* comment, whose author still exists.
C8_Witness ==
    /\ response.req.op = "delete_post"
    /\ response.status = "redirect"
    /\ nextCommentId > 1
    /\ 1 \notin DOMAIN comments
    /\ DOMAIN users = Users

\* C10: a step that deletes a category or a location deletes no post: a post
\* that referenced it is as before but for that reference, which is null, every
\* other post is unchanged, and so are the comments.
C10_DeleteCategoryKeepsPosts ==
    [][/\ \A slug \in DOMAIN categories \ DOMAIN categories' :
             /\ DOMAIN posts' = DOMAIN posts
             /\ \A id \in DOMAIN posts :
                   posts'[id] = IF posts[id].category = slug
                                THEN [posts[id] EXCEPT !.category = None]
                                ELSE posts[id]
             /\ comments' = comments
       /\ \A l \in locations \ locations' :
             /\ DOMAIN posts' = DOMAIN posts
             /\ \A id \in DOMAIN posts :
                   posts'[id] = IF posts[id].location = l
                                THEN [posts[id] EXCEPT !.location = None]
                                ELSE posts[id]
             /\ comments' = comments]_vars

\* C10 witness: a commented post has lost its category and its location, which
\* were deleted, while another post still has its category.
C10_Witness ==
    /\ response = NoResponse
    /\ locations = {}
    /\ \E a, b \in DOMAIN posts :
          /\ posts[a].category = None
          /\ posts[a].location = None
          /\ posts[b].category \in DOMAIN categories
          /\ \E c \in DOMAIN comments : comments[c].post = a

====
